---------------------------- MODULE Spec2Model ----------------------------
(***************************************************************************)
(* A model of the SoundTouch client (src/src/index.ts): the request/       *)
(* response pipeline (get, post, parseXml, handleError, escapeXml) and the *)
(* public operations built on it.                                          *)
(*                                                                         *)
(* Representation.                                                         *)
(*  - A JavaScript value is a record tagged by its runtime type (field t). *)
(*  - Text that the client builds (request bodies, caller-supplied         *)
(*    strings, key names) is a sequence of one-character strings, so that  *)
(*    escaping and interpolation are computed character by character.      *)
(*  - Text that the client only reads (element names, element text, error  *)
(*    codes) is a TLA+ string.                                             *)
(*  - A template literal of an error message is the tuple of its parts.    *)
(*  - An XML document on the wire is its element tree; a JSON document is  *)
(*    the value it denotes.                                                *)
(***************************************************************************)
EXTENDS Integers, Sequences, FiniteSets, TLC

VARIABLES
    host,       \* constructor parameter host
    port,       \* constructor parameter port
    timeout,    \* constructor parameter timeout (seconds)
    baseUrl,    \* this.baseUrl
    call,       \* per caller: the public operation in progress and its arguments
    pc,         \* per caller: "idle", "await" (suspended on a round trip) or "done"
    requests,   \* per caller: the requests the operation has issued, in order
    replies,    \* per caller: the transport's answers to those requests, in order
    nowPlaying, \* per caller: how the getNowPlaying() of playPause settled
    outcome     \* per caller: how the operation's promise settled

vars ==
    <<host, port, timeout, baseUrl, call, pc, requests, replies, nowPlaying, outcome>>

-----------------------------------------------------------------------------
(* Bounds of the model *)

MaxStrLen ==
    2

MaxItems ==
    2

LevelMargin ==
    2

-----------------------------------------------------------------------------
(* JavaScript values *)

Nil ==
    [t |-> "nil"]

JUndefined ==
    [t |-> "undefined"]

JNull ==
    [t |-> "null"]

JStr(s) ==
    [t |-> "string", s |-> s]

\* a string value holding a response body text
JText(text) ==
    [t |-> "string", text |-> text]

JNum(n) ==
    [t |-> "number", n |-> n]

JBool(b) ==
    [t |-> "boolean", b |-> b]

JArr(items) ==
    [t |-> "array", items |-> items]

JObj(fields) ==
    [t |-> "object", f |-> fields]

\* typeof v
TypeOf(v) ==
    IF v.t \in {"object", "array", "null"} THEN "object" ELSE v.t

\* ToBoolean(v): the test of `if (v)`, `v && ...` and `v || ...`
Truthy(v) ==
    CASE v.t = "undefined" -> FALSE
      [] v.t = "null"      -> FALSE
      [] v.t = "string"    -> IF "text" \in DOMAIN v THEN v.text.fmt # "empty" ELSE v.s # ""
      [] v.t = "number"    -> v.n # 0
      [] v.t = "boolean"   -> v.b
      [] OTHER             -> TRUE

\* key in v, for v an object or an array
In(key, v) ==
    v.t = "object" /\ key \in DOMAIN v.f

\* v.key throws a TypeError exactly when v is null or undefined
CanRead(v) ==
    v.t \notin {"null", "undefined"}

\* v.key, for v neither null nor undefined
Prop(v, key) ==
    IF In(key, v) THEN v.f[key] ELSE JUndefined

\* Array.isArray(v)
IsArray(v) ==
    v.t = "array"

\* v with v.key = w
Assign(v, key, w) ==
    JObj([k \in DOMAIN v.f \cup {key} |-> IF k = key THEN w ELSE v.f[k]])

-----------------------------------------------------------------------------
(* Errors *)

\* new ConnectionError(message, cause)
ConnectionError(message, cause) ==
    [t |-> "error", name |-> "ConnectionError", message |-> message, cause |-> cause]

\* new TimeoutError(message)
TimeoutError(message) ==
    [t |-> "error", name |-> "TimeoutError", message |-> message]

\* new ApiError(errorName, errorCode, message)
ApiError(errorName, errorCode, message) ==
    [t |-> "error", name |-> "ApiError",
     errorName |-> errorName, errorCode |-> errorCode,
     message |-> IF Truthy(message) THEN message
                 ELSE <<"API error: ", errorName, " (code ", errorCode, ")">>]

\* new Error(message)
PlainError(message) ==
    [t |-> "error", name |-> "Error", message |-> message]

\* the TypeError the runtime throws on reading a property of null or undefined
TypeError(key) ==
    [t |-> "error", name |-> "TypeError",
     message |-> <<"Cannot read properties of null or undefined, reading ", key>>]

\* a promise that resolved with value v
Resolved(v) ==
    [ok |-> TRUE, value |-> v]

\* a promise that rejected with error e
Rejected(e) ==
    [ok |-> FALSE, error |-> e]

-----------------------------------------------------------------------------
(* Text the client builds: sequences of characters *)

\* the replacement texts of escapeXml
AMP ==
    <<"&", "a", "m", "p", ";">>

LT ==
    <<"&", "l", "t", ";">>

GT ==
    <<"&", "g", "t", ";">>

QUOT ==
    <<"&", "q", "u", "o", "t", ";">>

APOS ==
    <<"&", "a", "p", "o", "s", ";">>

\* the literal parts of the request body templates
NameOpen ==
    <<"<", "n", "a", "m", "e", ">">>

NameClose ==
    <<"<", "/", "n", "a", "m", "e", ">">>

ContentItemOpen ==
    <<"<", "C", "o", "n", "t", "e", "n", "t", "I", "t", "e", "m", " ", "s", "o", "u", "r", "c", "e", "=", "\"">>

SourceAccountAttr ==
    <<" ", "s", "o", "u", "r", "c", "e", "A", "c", "c", "o", "u", "n", "t", "=", "\"">>

DQuote ==
    <<"\"">>

ContentItemClose ==
    <<" ", "l", "o", "c", "a", "t", "i", "o", "n", "=", "\"", "\"", ">", "<", "/", "C", "o", "n", "t", "e", "n", "t", "I", "t", "e", "m", ">">>

VolumeOpen ==
    <<"<", "v", "o", "l", "u", "m", "e", ">">>

VolumeClose ==
    <<"<", "/", "v", "o", "l", "u", "m", "e", ">">>

BassOpen ==
    <<"<", "b", "a", "s", "s", ">">>

BassClose ==
    <<"<", "/", "b", "a", "s", "s", ">">>

KeyOpen ==
    <<"<", "k", "e", "y", " ", "s", "t", "a", "t", "e", "=", "\"", "p", "r", "e", "s", "s", "\"", " ", "s", "e", "n", "d", "e", "r", "=", "\"", "G", "a", "b", "b", "o", "\"", ">">>

KeyClose ==
    <<"<", "/", "k", "e", "y", ">">>

\* the fixed texts of the /volume commands
MuteText ==
    <<"m", "u", "t", "e">>

UnmuteText ==
    <<"u", "n", "m", "u", "t", "e">>

VolumeUpText ==
    <<"v", "o", "l", "u", "m", "e", "U", "p">>

VolumeDownText ==
    <<"v", "o", "l", "u", "m", "e", "D", "o", "w", "n">>

\* the literal part of `PRESET_${presetId}`
PresetPrefix ==
    <<"P", "R", "E", "S", "E", "T", "_">>

\* KeyValue members (src/unnamed/part_001)
PLAY ==
    <<"P", "L", "A", "Y">>

PAUSE ==
    <<"P", "A", "U", "S", "E">>

PREV_TRACK ==
    <<"P", "R", "E", "V", "_", "T", "R", "A", "C", "K">>

NEXT_TRACK ==
    <<"N", "E", "X", "T", "_", "T", "R", "A", "C", "K">>

POWER ==
    <<"P", "O", "W", "E", "R">>

THUMBS_UP ==
    <<"T", "H", "U", "M", "B", "S", "_", "U", "P">>

\* String(n) for an integer n, as `${n}` interpolates it
RECURSIVE Digits(_)
Digits(n) ==
    LET d == <<"0", "1", "2", "3", "4", "5", "6", "7", "8", "9">>[(n % 10) + 1]
    IN  IF n < 10 THEN <<d>> ELSE Digits(n \div 10) \o <<d>>

NumberToString(n) ==
    IF n < 0 THEN <<"-">> \o Digits(0 - n) ELSE Digits(n)

\* s.replace(/c/g, rep): every occurrence of the character c replaced by rep
RECURSIVE ReplaceAll(_, _, _)
ReplaceAll(s, c, rep) ==
    IF s = <<>> THEN <<>>
    ELSE (IF Head(s) = c THEN rep ELSE <<Head(s)>>) \o ReplaceAll(Tail(s), c, rep)

\* escapeXml(unsafe): five global replacements, in this order
escapeXml(unsafe) ==
    ReplaceAll(
      ReplaceAll(
        ReplaceAll(
          ReplaceAll(
            ReplaceAll(unsafe, "&", AMP),
            "<", LT),
          ">", GT),
        "\"", QUOT),
      "'", APOS)

-----------------------------------------------------------------------------
(* XML decoding (parseXml) *)

\* an element: its name, its attributes in order, its child elements in
\* order, and its trimmed text
Element(tag, attrs, kids, text) ==
    [tag |-> tag, attrs |-> attrs, kids |-> kids, text |-> text]

Attr(k, v) ==
    [k |-> k, v |-> v]

\* the subsequence of the elements of kids named tag
RECURSIVE KidsNamed(_, _)
KidsNamed(kids, tag) ==
    IF kids = <<>> THEN <<>>
    ELSE (IF Head(kids).tag = tag THEN <<Head(kids)>> ELSE <<>>)
         \o KidsNamed(Tail(kids), tag)

\* The value xml2js builds for an element under the options parseXml passes:
\* explicitArray false (a child name that occurs once maps to the child's
\* value, one that occurs several times to the array of the values),
\* mergeAttrs true (attributes become keys of the same object),
\* explicitCharkey false (an element with neither attributes nor children is
\* its text), and no value processors (every text stays a string).
RECURSIVE ParseElement(_)
ParseElement(e) ==
    LET attrKeys == {e.attrs[i].k : i \in DOMAIN e.attrs}
        tags     == {e.kids[i].tag : i \in DOMAIN e.kids}
        charKeys == IF e.text # "" THEN {"_"} ELSE {}
        attrOf(k) == e.attrs[CHOOSE i \in DOMAIN e.attrs : e.attrs[i].k = k].v
        kidOf(k) ==
            LET named == KidsNamed(e.kids, k)
            IN  IF Len(named) = 1 THEN ParseElement(named[1])
                ELSE JArr([i \in DOMAIN named |-> ParseElement(named[i])])
    IN  IF e.attrs = <<>> /\ e.kids = <<>> THEN JStr(e.text)
        ELSE JObj([k \in attrKeys \cup tags \cup charKeys |->
                     IF k \in tags THEN kidOf(k)
                     ELSE IF k \in attrKeys THEN JStr(attrOf(k))
                     ELSE JStr(e.text)])

\* The texts a response body can be: nothing, an XML document, a JSON
\* document, or text that is neither.
EmptyText ==
    [fmt |-> "empty"]

XmlText(root) ==
    [fmt |-> "xml", doc |-> root]

JsonText(value) ==
    [fmt |-> "json", val |-> value]

OtherText ==
    [fmt |-> "other"]

\* parseXml(xml): the settled promise.  xml2js reports an error for text
\* that is not well-formed XML and yields null for blank text.
parseXml(xml) ==
    CASE xml.text.fmt = "xml" ->
             Resolved(JObj([k \in {xml.text.doc.tag} |-> ParseElement(xml.text.doc)]))
      [] xml.text.fmt = "empty" -> Resolved(JNull)
      [] OTHER -> Rejected(PlainError(<<"Failed to parse XML: ", "err.message">>))

-----------------------------------------------------------------------------
(* Transport: requests, the transport's answers, and their classification *)

\* this.client.get<string>(endpoint, {responseType: "text"})
GetRequest(endpoint) ==
    [verb |-> "GET", path |-> endpoint, body |-> Nil, responseType |-> "text"]

\* this.client.post(endpoint, body): no responseType is given
PostRequest(endpoint, body) ==
    [verb |-> "POST", path |-> endpoint, body |-> body, responseType |-> "default"]

\* response.data for a body text: with responseType "text" the text itself;
\* otherwise the value of the text when it is JSON, and the text when not
ResponseData(responseType, text) ==
    IF text.fmt = "json" /\ responseType # "text" THEN text.val ELSE JText(text)

\* the transport fulfilled the request: a 2xx response with this body text
Fulfilled(text) ==
    [ok |-> TRUE, text |-> text]

\* the transport failed the request with this error code, with no response
\* (hasResponse FALSE) or with a response carrying this body text
Failed(code, hasResponse, text) ==
    [ok |-> FALSE, code |-> code, hasResponse |-> hasResponse, text |-> text]

\* the AxiosError the client's catch block receives for a failed request
AxiosError(request, reply) ==
    [t |-> "error", name |-> "AxiosError", isAxiosError |-> TRUE,
     code |-> reply.code,
     message |-> <<"axios: ", reply.code>>,
     response |-> IF reply.hasResponse
                  THEN JObj([data |-> ResponseData(request.responseType, reply.text)])
                  ELSE JUndefined]

\* axios.isAxiosError(error)
IsAxiosError(error) ==
    "isAxiosError" \in DOMAIN error /\ error.isAxiosError

\* handleError without its last `throw error`: an error that is no AxiosError
\* is wrapped like an unclassified transport failure
handleErrorWrapsAll(url, error) ==
    IF IsAxiosError(error) THEN
        IF error.code \in {"ECONNREFUSED", "ENOTFOUND"} THEN
            ConnectionError(<<"Could not connect to speaker at ", url>>, error)
        ELSE IF error.code \in {"ETIMEDOUT", "ECONNABORTED"} THEN
            TimeoutError(<<"Request to ", url, " timed out">>)
        ELSE
            ConnectionError(<<"Request failed: ", error.message>>, error)
    ELSE ConnectionError(<<"Request failed: ", error.message>>, error)

\* handleError(error): the error it throws
handleError(url, error) ==
    IF IsAxiosError(error) THEN
        IF error.code \in {"ECONNREFUSED", "ENOTFOUND"} THEN
            ConnectionError(<<"Could not connect to speaker at ", url>>, error)
        ELSE IF error.code \in {"ETIMEDOUT", "ECONNABORTED"} THEN
            TimeoutError(<<"Request to ", url, " timed out">>)
        ELSE IF /\ CanRead(error.response)
                /\ Truthy(Prop(error.response, "data"))
                /\ TypeOf(Prop(error.response, "data")) = "object"
                /\ In("error", Prop(error.response, "data")) THEN
            LET errorData == Prop(error.response, "data")
                err       == Prop(errorData, "error")
            IN  IF CanRead(err)
                THEN ApiError(Prop(err, "name"), Prop(err, "code"), Prop(err, "message"))
                ELSE TypeError("name")
        ELSE
            ConnectionError(<<"Request failed: ", error.message>>, error)
    ELSE error

\* get(endpoint), from the answer to its request to the settled promise
get(url, request, reply) ==
    IF reply.ok THEN
        LET parsed == parseXml(ResponseData(request.responseType, reply.text))
        IN  IF parsed.ok THEN parsed ELSE Rejected(handleError(url, parsed.error))
    ELSE Rejected(handleError(url, AxiosError(request, reply)))

\* post resolving whatever the answer, the failure swallowed
postSwallows(url, request, reply) ==
    Resolved(JUndefined)

\* post(endpoint, body), from the answer to its request to the settled promise
post(url, request, reply) ==
    IF reply.ok THEN Resolved(JUndefined)
    ELSE Rejected(handleError(url, AxiosError(request, reply)))

-----------------------------------------------------------------------------
(* What callers pass and what the device answers *)

\* program constants
DefaultPort ==
    8090

DefaultTimeout ==
    10

MinVolume ==
    0

MaxVolume ==
    100

MinBass ==
    -10

MaxBass ==
    10

MinPreset ==
    1

MaxPreset ==
    6

\* the five reserved characters and one ordinary character
Chars ==
    {"&", "<", ">", "\"", "'", "a"}

\* every text over Chars of at most n characters
Texts(n) ==
    UNION {[1..k -> Chars] : k \in 0..n}

NameArgs ==
    Texts(MaxStrLen)

SourceArgs ==
    Texts(MaxStrLen)

AccountArgs ==
    Texts(1)

KeyArgs ==
    Texts(MaxStrLen) \cup {POWER, THUMBS_UP}

VolumeArgs ==
    (MinVolume - LevelMargin)..(MaxVolume + LevelMargin)

BassArgs ==
    (MinBass - LevelMargin)..(MaxBass + LevelMargin)

PresetArgs ==
    (MinPreset - LevelMargin)..(MaxPreset + LevelMargin)

\* the error codes a failed request can carry
FailureCodes ==
    {"ECONNREFUSED", "ENOTFOUND", "ETIMEDOUT", "ECONNABORTED", "ERR_BAD_RESPONSE"}

\* the error body of the device: { error: { name, code, message? } }
ErrorBody(name, code) ==
    JObj([error |-> JObj([name |-> JStr(name), code |-> JNum(code)])])

ErrorBodyWithMessage(name, code, message) ==
    JObj([error |-> JObj([name |-> JStr(name), code |-> JNum(code),
                          message |-> JStr(message)])])

\* the bodies an error response can carry: none, text that is not JSON, the
\* device's error body without and with a message, and JSON of other shapes
ErrorTexts ==
    { EmptyText,
      OtherText,
      JsonText(ErrorBody("X", 5)),
      JsonText(ErrorBodyWithMessage("X", 5, "m")),
      JsonText(ErrorBodyWithMessage("Y", 7, "")),
      JsonText(JObj([error |-> JNull])),
      JsonText(JObj([error |-> JStr("boom")])),
      JsonText(JObj([status |-> JStr("busy")])),
      JsonText(JArr(<<>>)) }

\* the failures of a round trip: every code without a response and with the
\* device's error body, and a bad response with each body
Failures ==
    {Failed(c, FALSE, EmptyText) : c \in FailureCodes}
      \cup {Failed(c, TRUE, JsonText(ErrorBody("X", 5))) : c \in FailureCodes}
      \cup {Failed("ERR_BAD_RESPONSE", TRUE, text) : text \in ErrorTexts}

\* n elements named tag, told apart by their id attribute
Items(tag, n) ==
    [i \in 1..n |-> Element(tag, <<Attr("id", ToString(i))>>, <<>>, "")]

Leaf(tag, text) ==
    Element(tag, <<>>, <<>>, text)

\* the well-formed documents the device answers each GET endpoint with
Docs(path) ==
    CASE path = "/info" ->
           { Element("info", <<Attr("deviceID", "D1")>>,
                     <<Leaf("name", "Kitchen"), Leaf("type", "SoundTouch 10")>>
                       \o Items("networkInfo", n), "") : n \in 0..MaxItems }
      [] path = "/capabilities" ->
           { Element("capabilities", <<Attr("deviceID", "D1")>>,
                     Items("capability", n), "") : n \in 0..MaxItems }
      [] path = "/sources" ->
           { Element("sources", <<Attr("deviceID", "D1")>>,
                     Items("sourceItem", n), "") : n \in 0..MaxItems }
      [] path = "/presets" ->
           { Element("presets", <<>>, Items("preset", n), "") : n \in 0..MaxItems }
      [] path = "/now_playing" ->
           { Element("nowPlaying", <<Attr("source", "AUX")>>,
                     <<Leaf("playStatus", s)>>, "")
               : s \in {"PLAY_STATE", "PAUSE_STATE", "STOP_STATE", "BUFFERING_STATE"} }
           \cup { Element("nowPlaying", <<Attr("source", "STANDBY")>>, <<>>, "") }
      [] path = "/volume" ->
           { Element("volume", <<Attr("deviceID", "D1")>>,
                     <<Leaf("targetvolume", "30"), Leaf("actualvolume", "28"),
                       Leaf("muteenabled", "false")>>, ""),
             Element("volume", <<>>,
                     <<Leaf("targetvolume", "30"), Leaf("actualvolume", "28"),
                       Leaf("muteenabled", "false")>>, ""),
             Element("volume", <<>>,
                     <<Leaf("targetvolume", "0"), Leaf("actualvolume", "0"),
                       Leaf("muteenabled", "true")>>, "") }
      [] path = "/bass" ->
           { Element("bass", <<>>,
                     <<Leaf("targetbass", "-3"), Leaf("actualbass", "-3")>>, "") }
      [] path = "/tone" ->
           { Element("tone", <<>>,
                     <<Leaf("targettreble", "1"), Leaf("actualtreble", "1"),
                       Leaf("targetbass", "0"), Leaf("actualbass", "0")>>, "") }

\* the answers the transport can give to a request: any failure; for a GET a
\* 2xx response with a document of the endpoint, a document with another root,
\* an empty body or text that is not XML; for a POST a 2xx response
Replies(request) ==
    Failures \cup
      IF request.verb = "GET"
      THEN {Fulfilled(XmlText(d)) : d \in Docs(request.path)}
             \cup {Fulfilled(XmlText(Element("errors", <<>>, <<>>, ""))),
                   Fulfilled(EmptyText), Fulfilled(OtherText)}
      ELSE {Fulfilled(EmptyText)}

-----------------------------------------------------------------------------
(* The public operations: what each does up to its first round trip *)

\* sendKey(key): the key text is interpolated as it is
sendKey(key) ==
    PostRequest("/key", KeyOpen \o key \o KeyClose)

\* setName(name)
setNameRequest(name) ==
    PostRequest("/name", NameOpen \o escapeXml(name) \o NameClose)

\* selectSource interpolating the source without escapeXml
selectSourceRequestRawSource(source, given, sourceAccount) ==
    PostRequest("/select",
        ContentItemOpen \o source \o DQuote
          \o (IF given /\ sourceAccount # <<>>
              THEN SourceAccountAttr \o escapeXml(sourceAccount) \o DQuote
              ELSE <<>>)
          \o ContentItemClose)

\* selectSource(source, sourceAccount?): given is FALSE when the second
\* argument is omitted; `if (sourceAccount)` is false for the empty string too
selectSourceRequest(source, given, sourceAccount) ==
    PostRequest("/select",
        ContentItemOpen \o escapeXml(source) \o DQuote
          \o (IF given /\ sourceAccount # <<>>
              THEN SourceAccountAttr \o escapeXml(sourceAccount) \o DQuote
              ELSE <<>>)
          \o ContentItemClose)

\* the range check of setVolume without its upper test
VolumeInRangeNoUpper(level) ==
    ~(level < MinVolume)

\* the range checks of setVolume, setBass and selectPreset
VolumeInRange(level) ==
    ~(level < MinVolume \/ level > MaxVolume)

BassInRange(level) ==
    ~(level < MinBass \/ level > MaxBass)

PresetInRange(presetId) ==
    ~(presetId < MinPreset \/ presetId > MaxPreset)

setVolumeRequest(level) ==
    PostRequest("/volume", VolumeOpen \o NumberToString(level) \o VolumeClose)

setBassRequest(level) ==
    PostRequest("/bass", BassOpen \o NumberToString(level) \o BassClose)

selectPresetRequest(presetId) ==
    sendKey(PresetPrefix \o NumberToString(presetId))

\* playPause with the branches of its test exchanged
playPauseKeyInverted(np) ==
    IF Prop(np, "playStatus") = JStr("PLAY_STATE") THEN PLAY ELSE PAUSE

\* the key playPause presses for the now-playing record it read
playPauseKey(np) ==
    IF Prop(np, "playStatus") = JStr("PLAY_STATE") THEN PAUSE ELSE PLAY

-----------------------------------------------------------------------------
(* The public GET operations: from the settled get to the settled operation *)

\* `if (record.field && !Array.isArray(record.field)) record.field = [record.field]`
Normalize(record, field) ==
    IF Truthy(Prop(record, field)) /\ ~IsArray(Prop(record, field))
    THEN Assign(record, field, JArr(<<Prop(record, field)>>))
    ELSE record

\* `const data = await this.get(...); return data.root`, with the
\* normalisation of data.root.field in between when field is given
Unwrap(got, root, field) ==
    IF ~got.ok THEN got
    ELSE IF ~CanRead(got.value) THEN Rejected(TypeError(root))
    ELSE LET record == Prop(got.value, root)
         IN  IF field = "" THEN Resolved(record)
             ELSE IF ~CanRead(record) THEN Rejected(TypeError(field))
             ELSE Resolved(Normalize(record, field))

getInfoResult(got) ==
    Unwrap(got, "info", "networkInfo")

getCapabilitiesResult(got) ==
    Unwrap(got, "capabilities", "capability")

getNowPlayingResult(got) ==
    Unwrap(got, "nowPlaying", "")

getSourcesResult(got) ==
    Unwrap(got, "sources", "sourceItem")

getVolumeResult(got) ==
    Unwrap(got, "volume", "")

getPresetsResult(got) ==
    Unwrap(got, "presets", "preset")

getBassResult(got) ==
    Unwrap(got, "bass", "")

getToneResult(got) ==
    Unwrap(got, "tone", "")

\* the operation's result for each GET operation but playPause
GetResult(op, got) ==
    CASE op = "getInfo"         -> getInfoResult(got)
      [] op = "getCapabilities" -> getCapabilitiesResult(got)
      [] op = "getNowPlaying"   -> getNowPlayingResult(got)
      [] op = "getSources"      -> getSourcesResult(got)
      [] op = "getVolume"       -> getVolumeResult(got)
      [] op = "getPresets"      -> getPresetsResult(got)
      [] op = "getBass"         -> getBassResult(got)
      [] op = "getTone"         -> getToneResult(got)

-----------------------------------------------------------------------------
(* The state machine *)

Callers ==
    DOMAIN pc

NoCall ==
    [op |-> "none", args |-> <<>>]

\* the client after construction with the default port and timeout, and
\* callers that have not called yet
InitFor(callers) ==
    /\ host = "192.0.2.1"
    /\ port = DefaultPort
    /\ timeout = DefaultTimeout
    /\ baseUrl = <<"http://", host, ":", port>>
    /\ call = [p \in callers |-> NoCall]
    /\ pc = [p \in callers |-> "idle"]
    /\ requests = [p \in callers |-> <<>>]
    /\ replies = [p \in callers |-> <<>>]
    /\ nowPlaying = [p \in callers |-> Nil]
    /\ outcome = [p \in callers |-> Nil]

Init ==
    InitFor({1})

\* caller p calls op(args), which runs up to its first request and suspends
Issue(p, op, args, request) ==
    /\ pc[p] = "idle"
    /\ call' = [call EXCEPT ![p] = [op |-> op, args |-> args]]
    /\ requests' = [requests EXCEPT ![p] = <<request>>]
    /\ pc' = [pc EXCEPT ![p] = "await"]
    /\ UNCHANGED <<host, port, timeout, baseUrl, replies, nowPlaying, outcome>>

\* caller p calls op(args), which throws before any request
Throw(p, op, args, error) ==
    /\ pc[p] = "idle"
    /\ call' = [call EXCEPT ![p] = [op |-> op, args |-> args]]
    /\ outcome' = [outcome EXCEPT ![p] = Rejected(error)]
    /\ pc' = [pc EXCEPT ![p] = "done"]
    /\ UNCHANGED <<host, port, timeout, baseUrl, requests, replies, nowPlaying>>

getInfo(p) ==
    Issue(p, "getInfo", <<>>, GetRequest("/info"))

getCapabilities(p) ==
    Issue(p, "getCapabilities", <<>>, GetRequest("/capabilities"))

setName(p) ==
    /\ pc[p] = "idle"
    /\ \E name \in NameArgs : Issue(p, "setName", <<name>>, setNameRequest(name))

getNowPlaying(p) ==
    Issue(p, "getNowPlaying", <<>>, GetRequest("/now_playing"))

getSources(p) ==
    Issue(p, "getSources", <<>>, GetRequest("/sources"))

selectSource(p) ==
    /\ pc[p] = "idle"
    /\ \E source \in SourceArgs, given \in BOOLEAN, account \in AccountArgs :
        /\ ~given => account = <<>>
        /\ Issue(p, "selectSource", <<source, given, account>>,
                 selectSourceRequest(source, given, account))

getVolume(p) ==
    Issue(p, "getVolume", <<>>, GetRequest("/volume"))

setVolume(p) ==
    /\ pc[p] = "idle"
    /\ \E level \in VolumeArgs :
        IF VolumeInRange(level)
        THEN Issue(p, "setVolume", <<level>>, setVolumeRequest(level))
        ELSE Throw(p, "setVolume", <<level>>,
                   PlainError(<<"Volume level must be between 0 and 100">>))

mute(p) ==
    Issue(p, "mute", <<>>, PostRequest("/volume", VolumeOpen \o MuteText \o VolumeClose))

unmute(p) ==
    Issue(p, "unmute", <<>>, PostRequest("/volume", VolumeOpen \o UnmuteText \o VolumeClose))

volumeUp(p) ==
    Issue(p, "volumeUp", <<>>,
          PostRequest("/volume", VolumeOpen \o VolumeUpText \o VolumeClose))

volumeDown(p) ==
    Issue(p, "volumeDown", <<>>,
          PostRequest("/volume", VolumeOpen \o VolumeDownText \o VolumeClose))

getPresets(p) ==
    Issue(p, "getPresets", <<>>, GetRequest("/presets"))

selectPreset(p) ==
    /\ pc[p] = "idle"
    /\ \E presetId \in PresetArgs :
        IF PresetInRange(presetId)
        THEN Issue(p, "selectPreset", <<presetId>>, selectPresetRequest(presetId))
        ELSE Throw(p, "selectPreset", <<presetId>>,
                   PlainError(<<"Preset ID must be between 1 and 6">>))

play(p) ==
    Issue(p, "play", <<>>, sendKey(PLAY))

pause(p) ==
    Issue(p, "pause", <<>>, sendKey(PAUSE))

\* playPause() up to the request of its getNowPlaying()
playPause(p) ==
    Issue(p, "playPause", <<>>, GetRequest("/now_playing"))

stop(p) ==
    Issue(p, "stop", <<>>, sendKey(PAUSE))

nextTrack(p) ==
    Issue(p, "nextTrack", <<>>, sendKey(NEXT_TRACK))

previousTrack(p) ==
    Issue(p, "previousTrack", <<>>, sendKey(PREV_TRACK))

getBass(p) ==
    Issue(p, "getBass", <<>>, GetRequest("/bass"))

setBass(p) ==
    /\ pc[p] = "idle"
    /\ \E level \in BassArgs :
        IF BassInRange(level)
        THEN Issue(p, "setBass", <<level>>, setBassRequest(level))
        ELSE Throw(p, "setBass", <<level>>,
                   PlainError(<<"Bass level must be between -10 and 10">>))

getTone(p) ==
    Issue(p, "getTone", <<>>, GetRequest("/tone"))

sendKeyRaw(p) ==
    /\ pc[p] = "idle"
    /\ \E key \in KeyArgs : Issue(p, "sendKey", <<key>>, sendKey(key))

\* the request caller p is suspended on
Pending(p) ==
    requests[p][Len(requests[p])]

\* the transport answers the POST that caller p is suspended on: post settles,
\* and with it the operation (every operation ends with its POST)
PostSettles(p) ==
    /\ pc[p] = "await"
    /\ Pending(p).verb = "POST"
    /\ \E reply \in Replies(Pending(p)) :
         /\ replies' = [replies EXCEPT ![p] = Append(@, reply)]
         /\ outcome' = [outcome EXCEPT ![p] = post(baseUrl, Pending(p), reply)]
    /\ pc' = [pc EXCEPT ![p] = "done"]
    /\ UNCHANGED <<host, port, timeout, baseUrl, call, requests, nowPlaying>>

\* the transport answers the GET of a get operation: get settles and the
\* operation unwraps and normalises what it decoded
GetSettles(p) ==
    /\ pc[p] = "await"
    /\ Pending(p).verb = "GET"
    /\ call[p].op # "playPause"
    /\ \E reply \in Replies(Pending(p)) :
         /\ replies' = [replies EXCEPT ![p] = Append(@, reply)]
         /\ outcome' = [outcome EXCEPT ![p] =
                          GetResult(call[p].op, get(baseUrl, Pending(p), reply))]
    /\ pc' = [pc EXCEPT ![p] = "done"]
    /\ UNCHANGED <<host, port, timeout, baseUrl, call, requests, nowPlaying>>

\* playPause swallowing a failed read and pressing play
playPauseNextSwallows(read) ==
    IF ~read.ok \/ ~CanRead(read.value)
    THEN [press |-> TRUE, request |-> sendKey(PLAY)]
    ELSE [press |-> TRUE, request |-> sendKey(playPauseKey(read.value))]

\* playPause keeping the status in a field of the client: the key is chosen
\* from the status another operation in flight has stored there, if any
playPauseNextSharedStatus(read) ==
    IF ~read.ok THEN [press |-> FALSE, result |-> read]
    ELSE IF ~CanRead(read.value)
         THEN [press |-> FALSE, result |-> Rejected(TypeError("playStatus"))]
         ELSE LET stored == {q \in Callers : /\ nowPlaying[q] # Nil
                                              /\ nowPlaying[q].ok
                                              /\ CanRead(nowPlaying[q].value)}
                  status == IF stored = {} THEN read.value
                            ELSE nowPlaying[CHOOSE q \in stored : TRUE].value
              IN  [press |-> TRUE, request |-> sendKey(playPauseKey(status))]

\* what playPause does once its getNowPlaying() has settled as read: it fails
\* with the read's error, or fails reading playStatus of a missing record, or
\* goes on to pause() or play()
playPauseNext(read) ==
    IF ~read.ok THEN [press |-> FALSE, result |-> read]
    ELSE IF ~CanRead(read.value)
         THEN [press |-> FALSE, result |-> Rejected(TypeError("playStatus"))]
         ELSE [press |-> TRUE, request |-> sendKey(playPauseKey(read.value))]

\* the transport answers the GET of playPause
PlayPauseStatus(p) ==
    /\ pc[p] = "await"
    /\ Pending(p).verb = "GET"
    /\ call[p].op = "playPause"
    /\ \E reply \in Replies(Pending(p)) :
         LET read == getNowPlayingResult(get(baseUrl, Pending(p), reply))
             next == playPauseNext(read)
         IN  /\ replies' = [replies EXCEPT ![p] = Append(@, reply)]
             /\ nowPlaying' = [nowPlaying EXCEPT ![p] = read]
             /\ IF next.press
                THEN /\ requests' = [requests EXCEPT ![p] = Append(@, next.request)]
                     /\ UNCHANGED <<pc, outcome>>
                ELSE /\ outcome' = [outcome EXCEPT ![p] = next.result]
                     /\ pc' = [pc EXCEPT ![p] = "done"]
                     /\ UNCHANGED requests
    /\ UNCHANGED <<host, port, timeout, baseUrl, call>>

\* the caller has the settled promise and may call again
Return(p) ==
    /\ pc[p] = "done"
    /\ pc' = [pc EXCEPT ![p] = "idle"]
    /\ call' = [call EXCEPT ![p] = NoCall]
    /\ requests' = [requests EXCEPT ![p] = <<>>]
    /\ replies' = [replies EXCEPT ![p] = <<>>]
    /\ nowPlaying' = [nowPlaying EXCEPT ![p] = Nil]
    /\ outcome' = [outcome EXCEPT ![p] = Nil]
    /\ UNCHANGED <<host, port, timeout, baseUrl>>

Next ==
    \/ \E p \in Callers : getInfo(p)
    \/ \E p \in Callers : getCapabilities(p)
    \/ \E p \in Callers : setName(p)
    \/ \E p \in Callers : getNowPlaying(p)
    \/ \E p \in Callers : getSources(p)
    \/ \E p \in Callers : selectSource(p)
    \/ \E p \in Callers : getVolume(p)
    \/ \E p \in Callers : setVolume(p)
    \/ \E p \in Callers : mute(p)
    \/ \E p \in Callers : unmute(p)
    \/ \E p \in Callers : volumeUp(p)
    \/ \E p \in Callers : volumeDown(p)
    \/ \E p \in Callers : getPresets(p)
    \/ \E p \in Callers : selectPreset(p)
    \/ \E p \in Callers : play(p)
    \/ \E p \in Callers : pause(p)
    \/ \E p \in Callers : playPause(p)
    \/ \E p \in Callers : stop(p)
    \/ \E p \in Callers : nextTrack(p)
    \/ \E p \in Callers : previousTrack(p)
    \/ \E p \in Callers : getBass(p)
    \/ \E p \in Callers : setBass(p)
    \/ \E p \in Callers : getTone(p)
    \/ \E p \in Callers : sendKeyRaw(p)
    \/ \E p \in Callers : PostSettles(p)
    \/ \E p \in Callers : GetSettles(p)
    \/ \E p \in Callers : PlayPauseStatus(p)
    \/ \E p \in Callers : Return(p)

Spec ==
    Init /\ [][Next]_vars

-----------------------------------------------------------------------------
(* Two operations in flight on the same client *)

\* one client, two callers that have not called yet
InitConcurrent ==
    InitFor({1, 2})

\* the texts the concurrent callers pass
ConcurrentTexts ==
    {<<"a">>, <<"&">>}

\* the levels the concurrent callers pass for a range lo..hi
ConcurrentLevels(lo, hi) ==
    {lo - LevelMargin, lo, hi, hi + LevelMargin}

\* the arguments of caller p's call and the answers to its requests are among
\* those the concurrent callers pass and receive: the sampled texts and
\* levels, every 2xx answer and one failure
ConcurrentInputs(p) ==
    /\ \A i \in DOMAIN replies[p] :
           replies[p][i].ok \/ replies[p][i] = Failed("ETIMEDOUT", FALSE, EmptyText)
    /\ CASE call[p].op \in {"setName", "sendKey"} ->
               call[p].args[1] \in ConcurrentTexts
         [] call[p].op = "selectSource" ->
               /\ call[p].args[1] \in ConcurrentTexts
               /\ call[p].args[3] \in ConcurrentTexts \cup {<<>>}
         [] call[p].op = "setVolume" ->
               call[p].args[1] \in ConcurrentLevels(MinVolume, MaxVolume)
         [] call[p].op = "setBass" ->
               call[p].args[1] \in ConcurrentLevels(MinBass, MaxBass)
         [] call[p].op = "selectPreset" ->
               call[p].args[1] \in ConcurrentLevels(MinPreset, MaxPreset)
         [] OTHER -> TRUE

\* the steps of Next, either caller taking any of them whenever it can, with
\* the sampled arguments and answers
NextConcurrent ==
    \/ \E p \in Callers : getInfo(p) /\ ConcurrentInputs(p)'
    \/ \E p \in Callers : getCapabilities(p) /\ ConcurrentInputs(p)'
    \/ \E p \in Callers : setName(p) /\ ConcurrentInputs(p)'
    \/ \E p \in Callers : getNowPlaying(p) /\ ConcurrentInputs(p)'
    \/ \E p \in Callers : getSources(p) /\ ConcurrentInputs(p)'
    \/ \E p \in Callers : selectSource(p) /\ ConcurrentInputs(p)'
    \/ \E p \in Callers : getVolume(p) /\ ConcurrentInputs(p)'
    \/ \E p \in Callers : setVolume(p) /\ ConcurrentInputs(p)'
    \/ \E p \in Callers : mute(p) /\ ConcurrentInputs(p)'
    \/ \E p \in Callers : unmute(p) /\ ConcurrentInputs(p)'
    \/ \E p \in Callers : volumeUp(p) /\ ConcurrentInputs(p)'
    \/ \E p \in Callers : volumeDown(p) /\ ConcurrentInputs(p)'
    \/ \E p \in Callers : getPresets(p) /\ ConcurrentInputs(p)'
    \/ \E p \in Callers : selectPreset(p) /\ ConcurrentInputs(p)'
    \/ \E p \in Callers : play(p) /\ ConcurrentInputs(p)'
    \/ \E p \in Callers : pause(p) /\ ConcurrentInputs(p)'
    \/ \E p \in Callers : playPause(p) /\ ConcurrentInputs(p)'
    \/ \E p \in Callers : stop(p) /\ ConcurrentInputs(p)'
    \/ \E p \in Callers : nextTrack(p) /\ ConcurrentInputs(p)'
    \/ \E p \in Callers : previousTrack(p) /\ ConcurrentInputs(p)'
    \/ \E p \in Callers : getBass(p) /\ ConcurrentInputs(p)'
    \/ \E p \in Callers : setBass(p) /\ ConcurrentInputs(p)'
    \/ \E p \in Callers : getTone(p) /\ ConcurrentInputs(p)'
    \/ \E p \in Callers : sendKeyRaw(p) /\ ConcurrentInputs(p)'
    \/ \E p \in Callers : PostSettles(p) /\ ConcurrentInputs(p)'
    \/ \E p \in Callers : GetSettles(p) /\ ConcurrentInputs(p)'
    \/ \E p \in Callers : PlayPauseStatus(p) /\ ConcurrentInputs(p)'
    \/ \E p \in Callers : Return(p)

SpecConcurrent ==
    InitConcurrent /\ [][NextConcurrent]_vars

-----------------------------------------------------------------------------
(* Properties *)

TaxonomyKinds ==
    {"ConnectionError", "TimeoutError", "ApiError"}

\* the operation of caller p has settled
Settled(p) ==
    pc[p] = "done"

\* the last answer caller p's operation received
LastReply(p) ==
    replies[p][Len(replies[p])]

\* the request that answer answered
LastRequest(p) ==
    requests[p][Len(replies[p])]

\* caller p's operation settled on a round trip that failed
FailedRoundTrip(p) ==
    Settled(p) /\ replies[p] # <<>> /\ ~LastReply(p).ok

\* the body of the failed response as the client received it
FailureData(p) ==
    ResponseData(LastRequest(p).responseType, LastReply(p).text)

\* the kind the priority order of the classification assigns to a failure;
\* "carries an error object" is read as widely as the code reads it, as an
\* object body with an error key
ClaimedKind(p) ==
    CASE LastReply(p).code \in {"ECONNREFUSED", "ENOTFOUND"} -> "ConnectionError"
      [] LastReply(p).code \in {"ETIMEDOUT", "ECONNABORTED"} -> "TimeoutError"
      [] /\ LastReply(p).code \notin
              {"ECONNREFUSED", "ENOTFOUND", "ETIMEDOUT", "ECONNABORTED"}
         /\ LastReply(p).hasResponse
         /\ In("error", FailureData(p)) -> "ApiError"
      [] OTHER -> "ConnectionError"

\* C1: every failure of a GET or POST round trip is classified in the
\* priority order: refused or unresolvable host gives ConnectionError;
\* otherwise timed out or aborted gives TimeoutError, whatever body the
\* failure carries; otherwise a body carrying an error object gives ApiError;
\* otherwise ConnectionError.
C1_ClassifiedInPriorityOrder ==
    \A p \in Callers :
        FailedRoundTrip(p) =>
            /\ ~outcome[p].ok
            /\ outcome[p].error.name = ClaimedKind(p)

\* C2: an operation whose round trip fails ends with an error that is one of
\* ConnectionError, TimeoutError and ApiError, never with another kind of
\* error and never with success.
C2_FailureIsOneOfThreeKinds ==
    \A p \in Callers :
        FailedRoundTrip(p) =>
            /\ ~outcome[p].ok
            /\ outcome[p].error.name \in TaxonomyKinds

\* the device answered the last request of caller p with an error response
\* whose body is an error object with a name and a code, and the failure is
\* neither refused or unresolvable nor a timeout
AnsweredWithErrorObject(p) ==
    /\ FailedRoundTrip(p)
    /\ LastReply(p).code \notin
         {"ECONNREFUSED", "ENOTFOUND", "ETIMEDOUT", "ECONNABORTED"}
    /\ LastReply(p).hasResponse
    /\ LastReply(p).text.fmt = "json"
    /\ In("error", LastReply(p).text.val)
    /\ In("name", LastReply(p).text.val.f.error)
    /\ In("code", LastReply(p).text.val.f.error)

\* C3: when the device answers an operation, GET-based or POST-based, with
\* an error response whose body is an error object with name X and code N
\* (the failure being neither refused nor a timeout), the operation fails
\* with an ApiError of errorName X and errorCode N, whose message is the
\* body's message when there is one and the text combining X and N when not.
C3_ErrorObjectGivesApiError ==
    \A p \in Callers :
        AnsweredWithErrorObject(p) =>
            LET body == LastReply(p).text.val.f.error
            IN  /\ ~outcome[p].ok
                /\ outcome[p].error.name = "ApiError"
                /\ outcome[p].error.errorName = body.f.name
                /\ outcome[p].error.errorCode = body.f.code
                /\ outcome[p].error.message =
                     IF In("message", body) THEN body.f.message
                     ELSE <<"API error: ", body.f.name, " (code ", body.f.code, ")">>

\* the range-checked operations, with their range and their endpoint
RangeChecked ==
    { [op |-> "setVolume", lo |-> 0, hi |-> 100, path |-> "/volume"],
      [op |-> "setBass", lo |-> -10, hi |-> 10, path |-> "/bass"],
      [op |-> "selectPreset", lo |-> 1, hi |-> 6, path |-> "/key"] }

\* C4: setVolume, setBass and selectPreset with an argument outside 0..100,
\* -10..10 and 1..6 fail with a validation error, which is none of the three
\* kinds, and issue no request; with an argument in range each issues exactly
\* one request, a POST to /volume, /bass and /key.
C4_ValidationPrecedesIO ==
    \A p \in Callers : \A r \in RangeChecked :
        call[p].op = r.op =>
            IF call[p].args[1] \in r.lo..r.hi
            THEN /\ Len(requests[p]) = 1
                 /\ requests[p][1].verb = "POST"
                 /\ requests[p][1].path = r.path
            ELSE /\ Settled(p)
                 /\ requests[p] = <<>>
                 /\ replies[p] = <<>>
                 /\ ~outcome[p].ok
                 /\ outcome[p].error.name = "Error"

C4_Witness ==
    \E p \in Callers :
        /\ call[p] = [op |-> "setVolume", args |-> <<101>>]
        /\ Settled(p)
        /\ requests[p] = <<>>
        /\ ~outcome[p].ok

\* the request body of a key press
KeyPress(key) ==
    <<"<", "k", "e", "y", " ", "s", "t", "a", "t", "e", "=", "\"", "p", "r", "e",
      "s", "s", "\"", " ", "s", "e", "n", "d", "e", "r", "=", "\"", "G", "a", "b",
      "b", "o", "\"", ">">> \o key \o <<"<", "/", "k", "e", "y", ">">>

\* the answer to the status read of playPause is a now-playing document
ObservedNowPlaying(p) ==
    /\ replies[p] # <<>>
    /\ replies[p][1].ok
    /\ replies[p][1].text.fmt = "xml"
    /\ replies[p][1].text.doc.tag = "nowPlaying"

\* the playStatus that document carries, "" when it carries none
ObservedStatus(p) ==
    LET kids == replies[p][1].text.doc.kids
    IN  IF \E i \in DOMAIN kids : kids[i].tag = "playStatus"
        THEN kids[CHOOSE i \in DOMAIN kids : kids[i].tag = "playStatus"].text
        ELSE ""

\* C5: playPause first reads now-playing with a GET of /now_playing; having
\* observed a now-playing record it makes exactly one further request, a POST
\* to /key pressing PAUSE when the observed playStatus is PLAY_STATE and PLAY
\* when it is anything else or absent.
C5_PlayPauseTogglesOnObservedStatus ==
    \A p \in Callers :
        call[p].op = "playPause" =>
            /\ Len(requests[p]) \in {1, 2}
            /\ requests[p][1].verb = "GET"
            /\ requests[p][1].path = "/now_playing"
            /\ ObservedNowPlaying(p) =>
                 /\ Len(requests[p]) = 2
                 /\ requests[p][2].verb = "POST"
                 /\ requests[p][2].path = "/key"
                 /\ requests[p][2].body =
                      IF ObservedStatus(p) = "PLAY_STATE"
                      THEN KeyPress(<<"P", "A", "U", "S", "E">>)
                      ELSE KeyPress(<<"P", "L", "A", "Y">>)

C5_Witness ==
    \E p \in Callers :
        /\ call[p].op = "playPause"
        /\ Settled(p)
        /\ outcome[p].ok
        /\ ObservedNowPlaying(p)
        /\ ObservedStatus(p) = "PLAY_STATE"
        /\ Len(requests[p]) = 2
        /\ requests[p][2].body = KeyPress(<<"P", "A", "U", "S", "E">>)

\* the status read of playPause failed: its round trip failed, or its
\* response could not be decoded
StatusReadFailed(p) ==
    /\ replies[p] # <<>>
    /\ \/ ~replies[p][1].ok
       \/ replies[p][1].text.fmt = "other"

\* C6: if the status read of playPause fails (connection, timeout, API error
\* or undecodable response), playPause fails with the error of the read and
\* sends no key press; a key press is sent only after a successful read.
C6_FailedReadSendsNoKey ==
    \A p \in Callers :
        call[p].op = "playPause" =>
            /\ StatusReadFailed(p) =>
                 /\ Settled(p)
                 /\ Len(requests[p]) = 1
                 /\ ~nowPlaying[p].ok
                 /\ outcome[p] = nowPlaying[p]
            /\ Len(requests[p]) = 2 =>
                 /\ ObservedNowPlaying(p)
                 /\ nowPlaying[p].ok

C6_Witness ==
    \E p \in Callers :
        /\ call[p].op = "playPause"
        /\ Settled(p)
        /\ ~replies[p][1].ok
        /\ replies[p][1].code = "ETIMEDOUT"
        /\ ~outcome[p].ok
        /\ outcome[p].error.name = "TimeoutError"
        /\ Len(requests[p]) = 1

\* the operations that return a record with a repeatable element, with the
\* root of their document and the name of the element
Repeatable ==
    { [op |-> "getInfo", root |-> "info", field |-> "networkInfo"],
      [op |-> "getCapabilities", root |-> "capabilities", field |-> "capability"],
      [op |-> "getSources", root |-> "sources", field |-> "sourceItem"],
      [op |-> "getPresets", root |-> "presets", field |-> "preset"] }

\* C7: for getInfo, getCapabilities, getSources and getPresets, whether the
\* response holds zero, one or N occurrences of the repeatable element, the
\* field of the returned record is a sequence of 0, 1 or N elements, never a
\* bare record and never absent.
C7_RepeatableIsAlwaysSequence ==
    \A p \in Callers : \A r \in Repeatable :
        ( /\ call[p].op = r.op
          /\ Settled(p)
          /\ replies[p][1].ok
          /\ replies[p][1].text.fmt = "xml"
          /\ replies[p][1].text.doc.tag = r.root ) =>
            /\ outcome[p].ok
            /\ In(r.field, outcome[p].value)
            /\ IsArray(outcome[p].value.f[r.field])
            /\ Len(outcome[p].value.f[r.field].items)
                 = Len(KidsNamed(replies[p][1].text.doc.kids, r.field))

\* the entity of a reserved character, and an ordinary character itself
Entity(c) ==
    CASE c = "&"  -> <<"&", "a", "m", "p", ";">>
      [] c = "<"  -> <<"&", "l", "t", ";">>
      [] c = ">"  -> <<"&", "g", "t", ";">>
      [] c = "\"" -> <<"&", "q", "u", "o", "t", ";">>
      [] c = "'"  -> <<"&", "a", "p", "o", "s", ";">>
      [] OTHER    -> <<c>>

\* s with each occurrence of a reserved character replaced once by its entity
RECURSIVE Escaped(_)
Escaped(s) ==
    IF s = <<>> THEN <<>> ELSE Entity(Head(s)) \o Escaped(Tail(s))

\* C8: every caller-supplied string interpolated into a request body (the
\* name of setName, the source and sourceAccount of selectSource, the key of
\* sendKey) has each occurrence of & < > " ' replaced exactly once by its
\* entity, so that no body carries an unescaped reserved character of the
\* caller's.
C8_CallerTextIsEscaped ==
    \A p \in Callers :
        /\ call[p].op = "setName" =>
             requests[p][1].body =
                 <<"<", "n", "a", "m", "e", ">">>
                   \o Escaped(call[p].args[1])
                   \o <<"<", "/", "n", "a", "m", "e", ">">>
        /\ call[p].op = "selectSource" =>
             LET open == <<"<", "C", "o", "n", "t", "e", "n", "t", "I", "t", "e",
                           "m", " ", "s", "o", "u", "r", "c", "e", "=", "\"">>
                 attr == <<" ", "s", "o", "u", "r", "c", "e", "A", "c", "c", "o",
                           "u", "n", "t", "=", "\"">>
                 tail == <<" ", "l", "o", "c", "a", "t", "i", "o", "n", "=", "\"",
                           "\"", ">", "<", "/", "C", "o", "n", "t", "e", "n", "t",
                           "I", "t", "e", "m", ">">>
                 source == open \o Escaped(call[p].args[1]) \o <<"\"">>
             IN  \/ requests[p][1].body = source \o tail
                 \/ requests[p][1].body =
                      source \o attr \o Escaped(call[p].args[3]) \o <<"\"">> \o tail
        /\ call[p].op = "sendKey" =>
             requests[p][1].body = KeyPress(Escaped(call[p].args[1]))

\* C9: a GET whose round trip succeeds but whose body is malformed XML fails
\* with a parse error that is none of ConnectionError, TimeoutError and
\* ApiError.
C9_MalformedXmlIsParseError ==
    \A p \in Callers :
        ( /\ Settled(p)
          /\ replies[p] # <<>>
          /\ LastRequest(p).verb = "GET"
          /\ LastReply(p).ok
          /\ LastReply(p).text.fmt = "other" ) =>
            /\ ~outcome[p].ok
            /\ outcome[p].error.name = "Error"
            /\ outcome[p].error.name \notin TaxonomyKinds
            /\ outcome[p].error.message[1] = "Failed to parse XML: "

C9_Witness ==
    \E p \in Callers :
        /\ call[p].op = "getVolume"
        /\ Settled(p)
        /\ replies[p][1].ok
        /\ replies[p][1].text.fmt = "other"
        /\ ~outcome[p].ok
        /\ outcome[p].error.name = "Error"

\* the /volume response with targetvolume 30, actualvolume 28 and
\* muteenabled false
VolumeDocument ==
    [tag |-> "volume", attrs |-> <<>>, text |-> "",
     kids |-> << [tag |-> "targetvolume", attrs |-> <<>>, kids |-> <<>>, text |-> "30"],
                 [tag |-> "actualvolume", attrs |-> <<>>, kids |-> <<>>, text |-> "28"],
                 [tag |-> "muteenabled", attrs |-> <<>>, kids |-> <<>>, text |-> "false"] >>]

\* C10: for that response getVolume returns targetvolume and actualvolume as
\* the numbers 30 and 28 and muteenabled as the boolean false, not as their
\* string forms.
C10_VolumeIsTyped ==
    \A p \in Callers :
        ( /\ call[p].op = "getVolume"
          /\ Settled(p)
          /\ replies[p][1] = [ok |-> TRUE, text |-> [fmt |-> "xml", doc |-> VolumeDocument]] ) =>
            /\ outcome[p].ok
            /\ outcome[p].value.f.targetvolume = [t |-> "number", n |-> 30]
            /\ outcome[p].value.f.actualvolume = [t |-> "number", n |-> 28]
            /\ outcome[p].value.f.muteenabled = [t |-> "boolean", b |-> FALSE]


\* <ContentItem source="S" location=""></ContentItem>
SelectBody(S) ==
    <<"<", "C", "o", "n", "t", "e", "n", "t", "I", "t", "e", "m", " ", "s", "o",
      "u", "r", "c", "e", "=", "\"">> \o S
      \o <<"\"", " ", "l", "o", "c", "a", "t", "i", "o", "n", "=", "\"", "\"", ">",
           "<", "/", "C", "o", "n", "t", "e", "n", "t", "I", "t", "e", "m", ">">>

\* <ContentItem source="S" sourceAccount="A" location=""></ContentItem>
SelectBodyWithAccount(S, A) ==
    <<"<", "C", "o", "n", "t", "e", "n", "t", "I", "t", "e", "m", " ", "s", "o",
      "u", "r", "c", "e", "=", "\"">> \o S
      \o <<"\"", " ", "s", "o", "u", "r", "c", "e", "A", "c", "c", "o", "u", "n",
           "t", "=", "\"">> \o A
      \o <<"\"", " ", "l", "o", "c", "a", "t", "i", "o", "n", "=", "\"", "\"", ">",
           "<", "/", "C", "o", "n", "t", "e", "n", "t", "I", "t", "e", "m", ">">>

\* selectSource has issued exactly one request, a POST to /select
OnePostToSelect(p) ==
    /\ Len(requests[p]) = 1
    /\ requests[p][1].verb = "POST"
    /\ requests[p][1].path = "/select"

\* C11 as stated: selectSource issues exactly one POST to /select, whose body
\* carries no sourceAccount attribute when the second argument is omitted and
\* carries sourceAccount="A" whenever a sourceAccount A is given, S and A
\* being the escaped arguments.
C11_AccountAttributeWheneverGiven ==
    \A p \in Callers :
        call[p].op = "selectSource" =>
            /\ OnePostToSelect(p)
            /\ requests[p][1].body =
                 IF call[p].args[2]
                 THEN SelectBodyWithAccount(Escaped(call[p].args[1]),
                                            Escaped(call[p].args[3]))
                 ELSE SelectBody(Escaped(call[p].args[1]))

\* C11 as amended: the body carries sourceAccount="A" when a sourceAccount A
\* that is not the empty string is given, and no sourceAccount attribute when
\* the second argument is omitted or is the empty string.
C11_AccountAttributeWhenNonEmpty ==
    \A p \in Callers :
        call[p].op = "selectSource" =>
            /\ OnePostToSelect(p)
            /\ requests[p][1].body =
                 IF call[p].args[2] /\ call[p].args[3] # <<>>
                 THEN SelectBodyWithAccount(Escaped(call[p].args[1]),
                                            Escaped(call[p].args[3]))
                 ELSE SelectBody(Escaped(call[p].args[1]))

C11_Witness ==
    \E p \in Callers :
        /\ call[p].op = "selectSource"
        /\ call[p].args = << <<"a", "<">>, TRUE, <<"&">> >>
        /\ Settled(p)
        /\ outcome[p].ok
        /\ requests[p][1].body =
             SelectBodyWithAccount(<<"a", "&", "l", "t", ";">>,
                                   <<"&", "a", "m", "p", ";">>)


\* the most round trips an operation may perform
MaxRoundTrips(op) ==
    IF op = "playPause" THEN 2 ELSE 1

\* C12: every operation issues at most one request, playPause at most two and
\* its second only once its first is answered; once an answer is a failure the
\* operation has issued no request after the one that failed, and has settled
\* rejected.
C12_OneRoundTripNoRetry ==
    \A p \in Callers :
        /\ Len(requests[p]) <= MaxRoundTrips(call[p].op)
        /\ Len(replies[p]) <= Len(requests[p])
        /\ Len(requests[p]) <= Len(replies[p]) + 1
        /\ \A i \in 1..Len(replies[p]) :
               ~replies[p][i].ok =>
                   /\ Len(requests[p]) = i
                   /\ Settled(p)
                   /\ ~outcome[p].ok

C12_Witness ==
    \E p \in Callers :
        /\ call[p].op = "playPause"
        /\ Len(requests[p]) = 2
        /\ Len(replies[p]) = 2
        /\ replies[p][1].ok
        /\ ~replies[p][2].ok
        /\ Settled(p)
        /\ ~outcome[p].ok


\* host, port, timeout and base URL are those of the construction
ConfigurationFixed ==
    /\ host = "192.0.2.1"
    /\ port = DefaultPort
    /\ timeout = DefaultTimeout
    /\ baseUrl = <<"http://", "192.0.2.1", ":", DefaultPort>>

\* two operations were called with the same arguments and have received the
\* same answers
SameInputs(p, q) ==
    call[p] = call[q] /\ replies[p] = replies[q]

\* C13: with two operations in flight on one client, under every
\* interleaving of their steps, host, port, timeout and base URL stay as
\* constructed; operations with the same arguments and the same answers to
\* their own requests have sent the same requests and have the same outcome,
\* whatever the other operation did in between; and the key of playPause is
\* the one for the status its own read returned.
C13_OutcomeFromOwnInputsOnly ==
    /\ ConfigurationFixed
    /\ \A p, q \in Callers :
           SameInputs(p, q) =>
               /\ requests[p] = requests[q]
               /\ Settled(p) <=> Settled(q)
               /\ outcome[p] = outcome[q]
    /\ \A p \in Callers :
           (call[p].op = "playPause" /\ Len(requests[p]) = 2) =>
               /\ ObservedNowPlaying(p)
               /\ requests[p][2].body =
                    IF ObservedStatus(p) = "PLAY_STATE"
                    THEN KeyPress(<<"P", "A", "U", "S", "E">>)
                    ELSE KeyPress(<<"P", "L", "A", "Y">>)

\* two playPause in flight at once, each with its key pending, the one having
\* read PLAY_STATE and the other PAUSE_STATE
C13_Witness ==
    \E p, q \in Callers :
        /\ p # q
        /\ call[p].op = "playPause" /\ call[q].op = "playPause"
        /\ pc[p] = "await" /\ pc[q] = "await"
        /\ Len(requests[p]) = 2 /\ Len(requests[q]) = 2
        /\ ObservedStatus(p) = "PLAY_STATE"
        /\ ObservedStatus(q) = "PAUSE_STATE"
        /\ requests[p][2].body = KeyPress(<<"P", "A", "U", "S", "E">>)
        /\ requests[q][2].body = KeyPress(<<"P", "L", "A", "Y">>)

=============================================================================
